---- MODULE Spec2Model ----
(***************************************************************************)
(* A model of package jsonhandlerfunc (the Config version of handler.go):  *)
(* Config.ToHandlerFunc builds an http.HandlerFunc from a target function  *)
(* and argument injectors; a request runs the injectors, decodes the       *)
(* "params" array of the body into typed slots, calls the target and       *)
(* encodes its return values as {"results": [...]}.                        *)
(*                                                                         *)
(* Go values are records [t |-> type, v |-> payload]; a pointer value has  *)
(* the payload of its pointee, or "nil".  Errors are records with a kind   *)
(* k, a message (a sequence of text pieces), a code and, for the wrapper   *)
(* made by NewStatusCodeError, the kind and code of the inner error.       *)
(***************************************************************************)
EXTENDS Integers, Sequences, FiniteSets, TLC

VARIABLES funcs, cfg, built, firstIsAlsoInjector, argsInjectors, rq

vars == <<funcs, cfg, built, firstIsAlsoInjector, argsInjectors, rq>>

(***************************************************************************)
(* Bounds of the model.                                                    *)
(***************************************************************************)
\* the longest params array a request body carries
MaxParamsLen == 2
\* the largest number of injector functions passed after the target
MaxInjectors == 2

\* the requests (goroutines) the model serves
Reqs == {1}

(***************************************************************************)
(* Types (reflect.Type) and their kinds (reflect.Kind).                    *)
(***************************************************************************)
Types == {"int", "string", "ptrint", "ctx", "error", "chan", "rw", "req", "any"}

Kind(t) ==
    CASE t = "int" -> "int"
      [] t = "string" -> "string"
      [] t = "ptrint" -> "ptr"
      [] t = "chan" -> "chan"
      [] t = "req" -> "ptr"
      [] OTHER -> "interface"

\* reflect.Type.Elem of a pointer type
Elem(t) == IF t = "ptrint" THEN "int" ELSE t

\* from.AssignableTo(to): identical types, and every type is assignable to
\* interface{} ("any"); the model's other interface types (context.Context,
\* error, http.ResponseWriter) have no second implementation among Types
AssignableTo(from, to) == from = to \/ to = "any"

\* reflect.Zero(t).Interface()
Zero(t) ==
    CASE t = "int" -> [t |-> "int", v |-> "0"]
      [] t = "string" -> [t |-> "string", v |-> ""]
      [] OTHER -> [t |-> t, v |-> "nil"]

\* the values a function of the model can return for a type
GoVals(t) ==
    CASE t = "int" -> {[t |-> "int", v |-> "30"]}
      [] t = "string" -> {[t |-> "string", v |-> "300"]}
      [] t = "ptrint" -> {[t |-> "ptrint", v |-> "30"]}
      [] t = "ctx" -> {[t |-> "ctx", v |-> "reqctx"]}
      [] t = "any" -> {[t |-> "any", v |-> "30"]}
      [] OTHER -> {[t |-> t, v |-> "nil"]}

\* the untyped nil of an interface{}
Nil == [t |-> "nil", v |-> "nil"]

\* reflect.Value.Interface(): a nil value of an interface type is the nil
\* interface
Interface(val) == IF Kind(val.t) = "interface" /\ val.v = "nil" THEN Nil ELSE val

\* reflect.Indirect(val): the pointee of a pointer, the value itself otherwise
Indirect(val) ==
    IF Kind(val.t) = "ptr" /\ val.v # "nil"
    THEN [t |-> Elem(val.t), v |-> val.v]
    ELSE val

(***************************************************************************)
(* Errors.                                                                 *)
(***************************************************************************)
NilErr == [k |-> "nil", msg |-> <<>>, code |-> 0, ik |-> "none", icode |-> 0]

\* fmt.Errorf / errors.New: a plain message error
PlainErr(m) == [k |-> "plain", msg |-> m, code |-> 0, ik |-> "none", icode |-> 0]

\* a user error type that implements StatusCodeError itself
CodedErr(c, m) == [k |-> "coded", msg |-> m, code |-> c, ik |-> "none", icode |-> 0]

NewStatusCodeError(code, innerError) ==
    [k |-> "wrapped", msg |-> innerError.msg, code |-> code,
     ik |-> innerError.k, icode |-> innerError.code]

\* errorWithStatusCode.innerErr
innerErr(e) == [k |-> e.ik, msg |-> e.msg, code |-> e.icode, ik |-> "none", icode |-> 0]

\* err.Error(): the display text
ErrorText(e) ==
    IF e.k = "wrapped" THEN <<ToString(e.code), ": ">> \o e.msg ELSE e.msg

\* last.(StatusCodeError)
IsStatusCodeError(e) == e.k \in {"coded", "wrapped"}

\* httpE.StatusCode()
StatusCode(e) == e.code

(***************************************************************************)
(* Config.ErrHandler: nil, or one of four hooks.                           *)
(***************************************************************************)
ErrHandlers == {"nil", "redact", "mapping", "recode", "annotate"}

ConfidentialErr == PlainErr(<<"confidential">>)
OtherErr == PlainErr(<<"other">>)
SystemErr == PlainErr(<<"system error">>)
TeapotErr == CodedErr(418, <<"teapot">>)
\* an error whose type json cannot encode (an exported field of a func or
\* channel type, or a MarshalJSON that fails)
UnencodableErr == [k |-> "unencodable", msg |-> <<"hi">>, code |-> 0, ik |-> "none", icode |-> 0]
RecodedErr == CodedErr(500, <<"recoded">>)

\* cfg.ErrHandler(oldErr) for a non-nil hook h: "redact" turns every error
\* into SystemErr, "mapping" is the map lookup of the ErrHandler example
\* (nil for an error that is not a key), "recode" answers with an error
\* that carries a status code, "annotate" with a new error whose text is the
\* old text behind a prefix
ErrHandler(h, oldErr) ==
    CASE h = "redact" -> SystemErr
      [] h = "mapping" -> IF oldErr = ConfidentialErr THEN SystemErr ELSE NilErr
      [] h = "recode" -> RecodedErr
      [] h = "annotate" -> PlainErr(<<"handled: ">> \o ErrorText(oldErr))
      [] OTHER -> oldErr

\* the errors a target or an injector of the model returns
UserErrs ==
    {ConfidentialErr, TeapotErr, UnencodableErr,
     NewStatusCodeError(403, ConfidentialErr), NewStatusCodeError(403, OtherErr),
     NewStatusCodeError(403, UnencodableErr)}

(***************************************************************************)
(* JSON values and encoding/json.                                          *)
(***************************************************************************)
JNull == [j |-> "null", v |-> "null"]
JNum(n) == [j |-> "num", v |-> n]
JStr(s) == [j |-> "str", v |-> s]

\* the elements a params array of the model is made of
JSONElems == {JNull, JNum("20"), JStr("Gates")}

\* json.Marshal of the error stored in ResponseError.Value: a message error
\* has no exported field, the wrapper exports HTTPStatusCode, the coded
\* user error exports its Code
ValueJSON(e) ==
    CASE e.k = "nil" -> "omitted"
      [] e.k = "wrapped" -> "{HTTPStatusCode:" \o ToString(e.code) \o "}"
      [] e.k = "coded" -> "{Code:" \o ToString(e.code) \o "}"
      [] OTHER -> "{}"

\* a slip in the envelope: Value is left unset
ResponseError_dropsValue(err) ==
    [t |-> "ResponseError", v |-> "", Error |-> ErrorText(err), Value |-> NilErr]

\* &ResponseError{Error: err.Error(), Value: err}
ResponseError(err) ==
    [t |-> "ResponseError", v |-> "", Error |-> ErrorText(err), Value |-> err]

\* json encoding of one entry of the results slice
JSONOf(x) ==
    CASE x.t = "ResponseError" ->
            [j |-> "object", v |-> "", error |-> x.Error, value |-> ValueJSON(x.Value)]
      [] x.v = "nil" -> JNull
      [] x.t \in {"int", "ptrint", "any"} -> JNum(x.v)
      [] x.t = "string" -> JStr(x.v)
      [] OTHER -> [j |-> "object", v |-> "{}"]

\* whether json can encode the entry x of the results slice: the Value of a
\* ResponseError is encoded with it
Encodable(x) == ~(x.t = "ResponseError" /\ x.Value.k = "unencodable")

\* enc.Encode(Resp{Results: out}): the results array of the body
EncodeResults(out) == [i \in 1..Len(out) |-> JSONOf(out[i])]

(***************************************************************************)
(* Function values: the target functions and injectors handed to           *)
(* ToHandlerFunc, described by their reflect.Type.                         *)
(***************************************************************************)
Func(ins, outs) == [kind |-> "func", ins |-> ins, outs |-> outs]

helloworld == Func(<<"string", "int">>, <<"string", "error">>)
helloInjected == Func(<<"int", "string", "string", "int">>, <<"string", "error">>)
helloContext == Func(<<"ctx", "string">>, <<"string", "error">>)
helloPointer == Func(<<"string", "ptrint">>, <<"error">>)
chanFunc == Func(<<"chan">>, <<"error">>)
noErrorFunc == Func(<<"string">>, <<"string">>)
notAFunc == [kind |-> "int", ins |-> <<>>, outs |-> <<>>]

cartIdInjector == Func(<<"rw", "req">>, <<"int", "error">>)
userIdInjector == Func(<<"rw", "req">>, <<"string", "error">>)
argsInjector == Func(<<"rw", "req">>, <<"int", "string", "error">>)
checkInjector == Func(<<"rw", "req">>, <<"error">>)
anyInjector == Func(<<"rw", "req">>, <<"any", "error">>)
chanInjector == Func(<<"rw", "req">>, <<"chan", "error">>)
contextInjector == Func(<<"rw", "req">>, <<"ctx", "error">>)

\* what can be passed as funcs[0], and as a later element of funcs
FirstFuncs ==
    {helloworld, helloInjected, helloContext, helloPointer, chanFunc, noErrorFunc,
     notAFunc, cartIdInjector, checkInjector}
LaterFuncs ==
    {cartIdInjector, userIdInjector, argsInjector, checkInjector, anyInjector,
     chanInjector, helloworld, notAFunc}

RECURSIVE SeqsUpTo(_, _)
\* the sequences over S of length at most n
SeqsUpTo(S, n) ==
    IF n = 0 THEN {<<>>}
    ELSE LET shorter == SeqsUpTo(S, n - 1)
         IN shorter \cup {Append(q, x) : q \in {p \in shorter : Len(p) = n - 1}, x \in S}

\* the argument lists of ToHandlerFunc the model tries
FuncLists ==
    {<<>>} \cup {<<f>> \o rest : f \in FirstFuncs, rest \in SeqsUpTo(LaterFuncs, MaxInjectors)}

isError(t) == t = "error"

typesAssignableTo(toTypes, fromTypes) ==
    /\ Len(toTypes) = Len(fromTypes)
    /\ \A i \in 1..Len(toTypes) : AssignableTo(fromTypes[i], toTypes[i])

\* a slip in check: channel types are let through
check_allowsChan(ft) ==
    CASE ft.kind # "func" -> <<"must pass in a func.">>
      [] ft.kind = "func" /\ Len(ft.outs) = 0 -> <<"reflect: Func index out of bounds">>
      [] ft.kind = "func" /\ Len(ft.outs) > 0 /\ ~isError(ft.outs[Len(ft.outs)]) ->
            <<"func's last return value must be error.">>
      [] OTHER -> <<>>

\* the panic message of check(ft), <<>> when ft passes
check(ft) ==
    CASE ft.kind # "func" -> <<"must pass in a func.">>
      [] ft.kind = "func" /\ Len(ft.outs) = 0 -> <<"reflect: Func index out of bounds">>
      [] ft.kind = "func" /\ Len(ft.outs) > 0 /\ ~isError(ft.outs[Len(ft.outs)]) ->
            <<"func's last return value must be error.">>
      [] OTHER ->
            IF \E i \in 1..Len(ft.ins) : Kind(ft.ins[i]) = "chan"
            THEN <<"func arguments can not be chan type.">>
            ELSE IF \E i \in 1..Len(ft.outs) : Kind(ft.outs[i]) = "chan"
                 THEN <<"func return values can not be chan type.">>
                 ELSE <<>>

isInjector(ft) == typesAssignableTo(ft.ins, <<"rw", "req">>)

RECURSIVE injectedTypes(_)
\* the types the injectors produce: every Out(i) but the last of each
injectedTypes(injectors) ==
    IF injectors = <<>> THEN <<>>
    ELSE LET injt == Head(injectors)
         IN SubSeq(injt.outs, 1, Len(injt.outs) - 1) \o injectedTypes(Tail(injectors))

\* the leading parameter types of ft the injected types are compared with
argTypes(ft, injectors) ==
    LET n == Len(injectedTypes(injectors))
    IN SubSeq(ft.ins, 1, IF n < Len(ft.ins) THEN n ELSE Len(ft.ins))

\* the panic message of checkInjectorsType, <<>> when the types fit
checkInjectorsType(ft, injectors) ==
    IF typesAssignableTo(injectedTypes(injectors), argTypes(ft, injectors))
    THEN <<>>
    ELSE <<"params type is ">> \o argTypes(ft, injectors)
            \o <<", but injecting ">> \o injectedTypes(injectors)

(***************************************************************************)
(* Config.ToHandlerFunc, the construction: the panic message, or <<>> and  *)
(* the closure's firstIsAlsoInjector and argsInjectors.                    *)
(***************************************************************************)
\* the first panic message of the loop over funcs from position i on
RECURSIVE injectorsPanic(_, _)
injectorsPanic(fs, i) ==
    IF i > Len(fs) THEN <<>>
    ELSE IF i = 1 /\ ~isInjector(fs[1]) THEN injectorsPanic(fs, 2)
    ELSE IF check(fs[i]) # <<>> THEN check(fs[i])
    ELSE IF ~isInjector(fs[i])
         THEN <<"injector params must be func(w http.ResponseWriter, r *http.Request) ...">>
         ELSE injectorsPanic(fs, i + 1)

\* a slip in the loop over funcs: funcs[0] is never collected
collectedInjectors_skipsFirst(fs) == Tail(fs)

\* the injectors the loop collects: funcs[0] when it is injector-shaped, and
\* every later element
collectedInjectors(fs) ==
    IF isInjector(fs[1]) THEN fs ELSE Tail(fs)

\* a slip in the construction: contextInjector is never installed
closureInjectors_noContext(fs) == collectedInjectors(fs)

\* argsInjectors of the closure: the collected ones, and contextInjector when
\* funcs is the target alone and its first parameter is a context.Context
closureInjectors(fs) ==
    IF Len(fs) = 1 /\ Len(fs[1].ins) > 0 /\ fs[1].ins[1] = "ctx"
    THEN collectedInjectors(fs) \o <<contextInjector>>
    ELSE collectedInjectors(fs)

\* the panic message of ToHandlerFunc(funcs...), <<>> when it returns a handler
constructionPanic(fs) ==
    IF Len(fs) = 0
    THEN <<"pass in one or more func, from the second one is all arguments injector.">>
    ELSE IF check(fs[1]) # <<>> THEN check(fs[1])
    ELSE IF injectorsPanic(fs, 1) # <<>> THEN injectorsPanic(fs, 1)
    ELSE IF ~isInjector(fs[1]) THEN checkInjectorsType(fs[1], closureInjectors(fs))
    ELSE <<>>

(***************************************************************************)
(* Requests.  A request body is empty, malformed, a JSON object without a  *)
(* params field, one whose params is null, or one whose params is an array.*)
(***************************************************************************)
StatusOK == 200
StatusUnprocessableEntity == 422

Body(kind, elems) == [kind |-> kind, elems |-> elems]

Bodies ==
    {Body(k, <<>>) : k \in {"empty", "malformed", "noparams", "paramsnull"}}
        \cup {Body("array", e) : e \in SeqsUpTo(JSONElems, MaxParamsLen)}

\* what one call of a function returns: the values before the trailing
\* error, and the trailing error
Outcome(vals, err) == [vals |-> vals, err |-> err]

RECURSIVE ValueTuples(_)
\* the value lists of the given types
ValueTuples(types) ==
    IF types = <<>> THEN {<<>>}
    ELSE {<<x>> \o rest : x \in GoVals(Head(types)), rest \in ValueTuples(Tail(types))}

\* the outcomes v.Call can have for a function of type ft
CallOutcomes(ft) ==
    {Outcome(vals, err) : vals \in ValueTuples(SubSeq(ft.outs, 1, Len(ft.outs) - 1)),
                          err \in UserErrs \cup {NilErr}}

\* the state of one request: where the handler is (pc), the body posted,
\* what each injector called so far returned (injRets), injectVals,
\* whether r.Body was read, params after decoding, the call of the target
\* (called, calledArgs, ret), and what the ResponseWriter received (status,
\* outs and their encoding results, the calls evs made on it)
IdleReq ==
    [pc |-> "idle", body |-> Body("empty", <<>>), injRets |-> <<>>,
     injectVals |-> <<>>, bodyRead |-> FALSE, params |-> <<>>,
     called |-> FALSE, calledArgs |-> <<>>, ret |-> Outcome(<<>>, NilErr),
     status |-> 0, outs |-> <<>>, results |-> <<>>, evs |-> <<>>, panic |-> ""]

\* a panic of the serving goroutine: net/http recovers it and drops the
\* connection, nothing more is written
Panic(q, why) == [q EXCEPT !.pc = "panic", !.panic = why]

\* w.WriteHeader(httpCode)
WriteHeader(q, httpCode) ==
    [q EXCEPT !.status = IF @ = 0 THEN httpCode ELSE @, !.evs = Append(@, "WriteHeader")]

\* writeJSONResponse(w, out): the Content-Type header, then the encoded
\* body; when enc.Encode fails the error is logged and nothing is written
writeJSONResponse(q, out) ==
    IF \A i \in 1..Len(out) : Encodable(out[i])
    THEN [q EXCEPT !.status = IF @ = 0 THEN StatusOK ELSE @,
                   !.outs = out,
                   !.results = EncodeResults(out),
                   !.evs = @ \o <<"SetContentType", "Write">>]
    ELSE [q EXCEPT !.outs = out,
                   !.evs = @ \o <<"SetContentType", "log">>]

\* a slip in the status of returnVals: an error without StatusCode() is
\* answered as an internal server error
statusOf_errorIs500(last) ==
    IF last = NilErr THEN StatusOK
    ELSE IF IsStatusCodeError(last) THEN StatusCode(last) ELSE 500

\* httpCode of returnVals: http.StatusOK, or the StatusCode() of a non-nil
\* last value that has one
statusOf(last) ==
    IF last # NilErr /\ IsStatusCodeError(last) THEN StatusCode(last) ELSE StatusOK

\* a slip in returnVals: the wrapper of NewStatusCodeError is not unwrapped
unwrap_keepsWrapper(last) == last

\* err of returnVals before the ErrHandler: the innerErr of an
\* *errorWithStatusCode, the last value itself otherwise
unwrap(last) == IF last.k = "wrapped" THEN innerErr(last) ELSE last

\* a slip in returnVals: nothing is appended for a nil last value
returnVals_omitsNil(h, out) ==
    LET last == out.err
        err == IF h # "nil" THEN ErrHandler(h, unwrap(last)) ELSE unwrap(last)
        outs == [i \in 1..Len(out.vals) |-> Interface(out.vals[i])]
    IN IF last = NilErr
       THEN [httpCode |-> statusOf(last), outs |-> outs,
             normalVals |-> out.vals, err |-> NilErr, panic |-> FALSE]
       ELSE [httpCode |-> statusOf(last),
             outs |-> IF err = NilErr THEN <<>> ELSE Append(outs, ResponseError(err)),
             normalVals |-> out.vals, err |-> err, panic |-> err = NilErr]

\* Config.returnVals(outVals): httpCode, outs, normalVals and err, or the
\* nil dereference of err.Error() when the ErrHandler answered nil
returnVals(h, out) ==
    LET last == out.err
        err == IF h # "nil" THEN ErrHandler(h, unwrap(last)) ELSE unwrap(last)
        outs == [i \in 1..Len(out.vals) |-> Interface(out.vals[i])]
    IN IF last = NilErr
       THEN [httpCode |-> statusOf(last), outs |-> Append(outs, Nil),
             normalVals |-> out.vals, err |-> NilErr, panic |-> FALSE]
       ELSE [httpCode |-> statusOf(last),
             outs |-> IF err = NilErr THEN <<>> ELSE Append(outs, ResponseError(err)),
             normalVals |-> out.vals, err |-> err, panic |-> err = NilErr]

\* errIndex of returnError: the last return value of an error type
errIndex(ft) ==
    IF \E i \in 1..Len(ft.outs) : isError(ft.outs[i])
    THEN CHOOSE i \in 1..Len(ft.outs) :
            /\ isError(ft.outs[i])
            /\ \A k \in 1..Len(ft.outs) : isError(ft.outs[k]) => k <= i
    ELSE 1

\* Config.returnError(ft, w, err, httpCode)
returnError(h, ft, q, err, httpCode) ==
    LET e == IF h # "nil" THEN ErrHandler(h, err) ELSE err
        errOuts == [i \in 1..Len(ft.outs) |->
                        IF i = errIndex(ft) THEN ResponseError(e)
                        ELSE Interface(Zero(ft.outs[i]))]
    IN IF e = NilErr
       THEN Panic(q, "nil pointer dereference")
       ELSE [writeJSONResponse(WriteHeader(q, httpCode), errOuts) EXCEPT !.pc = "done"]

\* a slip in the loop over argsInjectors: shouldReturn is not acted on, the
\* handler goes on after the error response
injectedParams_goesOn(h, ft, q, out) ==
    LET rv == returnVals(h, out)
    IN IF rv.panic THEN Panic(q, "nil pointer dereference")
       ELSE IF rv.err # NilErr
       THEN [returnError(h, ft, q, rv.err, rv.httpCode) EXCEPT !.pc = "inject"]
       ELSE [q EXCEPT !.injectVals = @ \o rv.normalVals]

\* Config.injectedParams for the outcome out of the injector's call: the
\* request after it, at pc "inject" when the handler goes on
injectedParams(h, ft, q, out) ==
    LET rv == returnVals(h, out)
    IN IF rv.panic THEN Panic(q, "nil pointer dereference")
       ELSE IF rv.err # NilErr THEN returnError(h, ft, q, rv.err, rv.httpCode)
       ELSE [q EXCEPT !.injectVals = @ \o rv.normalVals]

(***************************************************************************)
(* The parameter decoder.  A slot is what reflect.New made for a           *)
(* parameter: params holds, per position, the pointer to the slot          *)
(* (p = "slot", with the slot's type and content), a nil interface         *)
(* (p = "nil", what a JSON null leaves), or for an element beyond the      *)
(* slots the value json puts into an empty interface{} (p = "generic").    *)
(***************************************************************************)
\* the type reflect.New is called with for a parameter of type paramType
slotType(paramType) == IF Kind(paramType) = "ptr" THEN Elem(paramType) ELSE paramType

\* ptrs[i] of the closure: the parameter itself is a pointer
isPtrParam(paramType) == Kind(paramType) = "ptr"

\* params (and notNilParams) before decoding: a slot for each parameter of
\* ft after the first injectedCount
newParams(ft, injectedCount) ==
    [i \in 1..(Len(ft.ins) - injectedCount) |->
        [p |-> "slot", t |-> slotType(ft.ins[i + injectedCount]),
         v |-> Zero(slotType(ft.ins[i + injectedCount])).v]]

\* whether json can store the non-null element el into a slot of type t
fits(t, el) ==
    CASE t = "int" -> el.j = "num"
      [] t = "string" -> el.j = "str"
      [] t = "any" -> TRUE
      [] OTHER -> FALSE

\* params[i] after dec.Decode(&req) of a body whose params array is elems
decodedParam(params, elems, i) ==
    IF i > Len(params) THEN [p |-> "generic", t |-> elems[i].j, v |-> elems[i].v]
    ELSE IF elems[i] = JNull THEN [p |-> "nil", t |-> "nil", v |-> "nil"]
    ELSE IF fits(params[i].t, elems[i]) THEN [params[i] EXCEPT !.v = elems[i].v]
    ELSE params[i]

\* dec.Decode(&req): params after it, and whether it returned an error
Decode(params, body) ==
    CASE body.kind \in {"empty", "malformed"} -> [params |-> params, err |-> TRUE]
      [] body.kind \in {"noparams", "paramsnull"} -> [params |-> params, err |-> FALSE]
      [] OTHER ->
            [params |-> [i \in 1..Len(body.elems) |-> decodedParam(params, body.elems, i)],
             err |-> \E i \in 1..Len(body.elems) :
                        /\ i <= Len(params)
                        /\ body.elems[i] # JNull
                        /\ ~fits(params[i].t, body.elems[i])]

\* ptrs of the closure: false for the injected positions, and for the others
\* whether the parameter is a pointer
ptrs(ft, injectedCount) ==
    [i \in 1..Len(ft.ins) |-> i > injectedCount /\ isPtrParam(ft.ins[i])]

\* a slip in the index into ptrs: the position in params, as if nothing
\* were injected
ptrsIndex_ignoresInjected(i, injectedCount) == i

\* the index into ptrs for params[i]: its position among all parameters
ptrsIndex(i, injectedCount) == i + injectedCount

\* the type of the pointer to a slot of type t
PtrTo(t) == IF t = "int" THEN "ptrint" ELSE "ptr" \o t

\* a slip in the loop over params: the nil a JSON null left is handed on
\* instead of the slot kept in notNilParams
inVal_keepsNil(ft, injectedCount, notNilParams, params, i) ==
    IF ptrs(ft, injectedCount)[ptrsIndex(i, injectedCount)]
    THEN [t |-> PtrTo(params[i].t), v |-> params[i].v]
    ELSE [t |-> params[i].t, v |-> params[i].v]

\* the reflect.Value appended to inVals for params[i]: the pointer to the
\* slot, or what reflect.Indirect makes of it when ptrs says so
inVal(ft, injectedCount, notNilParams, params, i) ==
    LET p == IF params[i].p = "nil" THEN notNilParams[i] ELSE params[i]
    IN IF ptrs(ft, injectedCount)[ptrsIndex(i, injectedCount)]
       THEN [t |-> PtrTo(p.t), v |-> p.v]
       ELSE [t |-> p.t, v |-> p.v]

\* v.Call(inVals) panics when a value is not assignable to its parameter
callPanics(ft, inVals) ==
    \E i \in 1..Len(inVals) : ~AssignableTo(inVals[i].t, ft.ins[i])

\* a slip in the arity message: the two counts change places
arityError_swapped(numIn, supplied) ==
    PlainErr(<<"require ", ToString(supplied), " params, but passed in ",
               ToString(numIn), " params">>)

\* the error of the length check of inVals
arityError(numIn, supplied) ==
    PlainErr(<<"require ", ToString(numIn), " params, but passed in ",
               ToString(supplied), " params">>)

\* a slip in the decode error: the decoder's own message is appended
decodeError_withDetail ==
    PlainErr(<<"decode request params error", ": ", "json: cannot unmarshal">>)

\* the error answered when dec.Decode fails
decodeError == PlainErr(<<"decode request params error">>)

(***************************************************************************)
(* The state machine: one construction, then the requests.                 *)
(***************************************************************************)
\* funcs[0], the function whose type ft the closure keeps
ft == funcs[1]

Init ==
    /\ funcs \in FuncLists
    /\ cfg \in ErrHandlers
    /\ built = [state |-> "unbuilt", msg |-> <<>>]
    /\ firstIsAlsoInjector = FALSE
    /\ argsInjectors = <<>>
    /\ rq = [r \in Reqs |-> IdleReq]

\* cfg.ToHandlerFunc(funcs...): panics, or returns the handler
ToHandlerFunc ==
    /\ built.state = "unbuilt"
    /\ LET msg == constructionPanic(funcs)
       IN IF msg # <<>>
          THEN /\ built' = [state |-> "panic", msg |-> msg]
               /\ UNCHANGED <<firstIsAlsoInjector, argsInjectors>>
          ELSE /\ built' = [state |-> "handler", msg |-> <<>>]
               /\ firstIsAlsoInjector' = isInjector(funcs[1])
               /\ argsInjectors' = closureInjectors(funcs)
    /\ UNCHANGED <<funcs, cfg, rq>>

\* a slip in the closure: injectVals is declared outside it, so a request
\* starts with what the other requests have appended
initialInjectVals_captured(rqs, r) ==
    LET others == {s \in DOMAIN rqs : s # r /\ rqs[s].injectVals # <<>>}
    IN IF others = {} THEN <<>> ELSE rqs[CHOOSE s \in others : TRUE].injectVals

\* var injectVals []reflect.Value: a local of the run of request r, empty
\* whatever the other runs rqs hold
initialInjectVals(rqs, r) == <<>>

\* a request with the given body reaches the handler
ServeHTTP(r) ==
    /\ built.state = "handler"
    /\ rq[r].pc = "idle"
    /\ \E body \in Bodies :
          rq' = [rq EXCEPT ![r] = [IdleReq EXCEPT !.pc = "inject", !.body = body,
                                                  !.injectVals = initialInjectVals(rq, r)]]
    /\ UNCHANGED <<funcs, cfg, built, firstIsAlsoInjector, argsInjectors>>

\* what the call of an injector can return; contextInjector returns
\* r.Context() and a nil error
InjectorOutcomes(injector) ==
    IF injector = contextInjector
    THEN {Outcome(<<[t |-> "ctx", v |-> "reqctx"]>>, NilErr)}
    ELSE CallOutcomes(injector)

\* one turn of the loop over argsInjectors, the injector returning out
injectorTurn(q, out) ==
    injectedParams(cfg, ft, [q EXCEPT !.injRets = Append(@, out)], out)

\* one turn of the loop over argsInjectors
Inject(r) ==
    /\ rq[r].pc = "inject"
    /\ Len(rq[r].injRets) < Len(argsInjectors)
    /\ LET injector == argsInjectors[Len(rq[r].injRets) + 1]
       IN \E out \in InjectorOutcomes(injector) :
             rq' = [rq EXCEPT ![r] = injectorTurn(rq[r], out)]
    /\ UNCHANGED <<funcs, cfg, built, firstIsAlsoInjector, argsInjectors>>

\* the response of the firstIsAlsoInjector branch: the injected values and
\* a nil error
respondInjected(q) ==
    LET rv == returnVals(cfg, Outcome(q.injectVals, NilErr))
    IN [writeJSONResponse(WriteHeader(q, rv.httpCode), rv.outs) EXCEPT !.pc = "done"]

\* after the loop, when funcs[0] is itself an injector: its values (and the
\* other injectors') are the results
RespondInjected(r) ==
    /\ rq[r].pc = "inject"
    /\ Len(rq[r].injRets) = Len(argsInjectors)
    /\ firstIsAlsoInjector
    /\ rq' = [rq EXCEPT ![r] = respondInjected(rq[r])]
    /\ UNCHANGED <<funcs, cfg, built, firstIsAlsoInjector, argsInjectors>>

\* the slots for the parameters the injectors did not supply and the
\* decoding of the body into them: the request after it
slotsAndDecode(q) ==
    LET injectedCount == Len(q.injectVals)
        params == newParams(ft, injectedCount)
        dec == Decode(params, q.body)
    IN IF \E i \in (injectedCount + 1)..Len(ft.ins) : Kind(ft.ins[i]) = "chan"
       THEN Panic(q, "params can not be chan type.")
       ELSE IF Len(params) = 0
       THEN [q EXCEPT !.pc = "call"]
       ELSE IF dec.err
       THEN returnError(cfg, ft, [q EXCEPT !.bodyRead = TRUE],
                        decodeError, StatusUnprocessableEntity)
       ELSE [q EXCEPT !.pc = "call", !.bodyRead = TRUE, !.params = dec.params]

\* after the loop: the slots for the parameters the injectors did not
\* supply, and the decoding of the body into them
DecodeParams(r) ==
    /\ rq[r].pc = "inject"
    /\ Len(rq[r].injRets) = Len(argsInjectors)
    /\ ~firstIsAlsoInjector
    /\ rq' = [rq EXCEPT ![r] = slotsAndDecode(rq[r])]
    /\ UNCHANGED <<funcs, cfg, built, firstIsAlsoInjector, argsInjectors>>

\* inVals, the check of its length, the call of the target returning out
\* and the response: the request after it
callAndRespond(q, out) ==
    LET injectedCount == Len(q.injectVals)
        numIn == Len(ft.ins)
        notNilParams == newParams(ft, injectedCount)
        inVals == q.injectVals \o
                     [i \in 1..Len(q.params) |->
                         inVal(ft, injectedCount, notNilParams, q.params, i)]
    IN IF Len(q.params) > Len(notNilParams)
       THEN Panic(q, "index out of range")
       ELSE IF Len(inVals) # numIn
       THEN returnError(cfg, ft, q, arityError(numIn, Len(inVals)),
                        StatusUnprocessableEntity)
       ELSE IF callPanics(ft, inVals)
       THEN Panic(q, "reflect: Call using a value of another type")
       ELSE LET rv == returnVals(cfg, out)
                c == [q EXCEPT !.called = TRUE, !.calledArgs = inVals, !.ret = out]
            IN IF rv.panic
               THEN Panic(c, "nil pointer dereference")
               ELSE [writeJSONResponse(WriteHeader(c, rv.httpCode), rv.outs)
                       EXCEPT !.pc = "done"]

\* inVals, the check of its length, the call of the target and the response
Invoke(r) ==
    /\ rq[r].pc = "call"
    /\ \E out \in CallOutcomes(ft) :
          rq' = [rq EXCEPT ![r] = callAndRespond(rq[r], out)]
    /\ UNCHANGED <<funcs, cfg, built, firstIsAlsoInjector, argsInjectors>>

\* the handler is built once; it then serves the requests, each in its own
\* goroutine
Next ==
    \/ ToHandlerFunc
    \/ \E r \in DOMAIN rq : ServeHTTP(r)
    \/ \E r \in DOMAIN rq : Inject(r)
    \/ \E r \in DOMAIN rq : RespondInjected(r)
    \/ \E r \in DOMAIN rq : DecodeParams(r)
    \/ \E r \in DOMAIN rq : Invoke(r)

Spec == Init /\ [][Next]_vars

(***************************************************************************)
(* What the claims speak of.                                               *)
(***************************************************************************)
\* the handler has returned or panicked
Ended(q) == q.pc \in {"done", "panic"}

\* every injector of the chain was called and returned a nil error
InjectorsSucceeded(q) ==
    /\ Len(q.injRets) = Len(argsInjectors)
    /\ \A j \in 1..Len(q.injRets) : q.injRets[j].err = NilErr

RECURSIVE ProducedValues(_)
\* the values the injectors produced, in the order of the calls
ProducedValues(rets) ==
    IF rets = <<>> THEN <<>> ELSE Head(rets).vals \o ProducedValues(Tail(rets))

\* the number of parameters of the target the injectors do not supply
NonInjected(q) == Len(ft.ins) - Len(ProducedValues(q.injRets))

\* the JSON element el has the JSON type of a parameter of type paramType
ElementFits(paramType, el) ==
    \/ el = JNull
    \/ paramType \in {"int", "ptrint"} /\ el.j = "num"
    \/ paramType = "string" /\ el.j = "str"

\* the argument a parameter of type paramType is to receive for element el
ExpectedArg(paramType, el) ==
    IF el # JNull THEN [t |-> paramType, v |-> el.v]
    ELSE IF paramType = "ptrint" THEN [t |-> "ptrint", v |-> "0"]
    ELSE Zero(paramType)

\* the request posted a params array of exactly the non-injected parameters
ExactParams(q) ==
    /\ q.body.kind = "array"
    /\ Len(q.body.elems) = NonInjected(q)
    /\ \A i \in 1..Len(q.body.elems) :
          ElementFits(ft.ins[Len(ft.ins) - NonInjected(q) + i], q.body.elems[i])

\* the last entry of the results array of the response
LastResult(q) ==
    IF q.results = <<>> THEN [j |-> "none", v |-> "", error |-> <<>>, value |-> "none"]
    ELSE q.results[Len(q.results)]

\* the encoding of the values vals, as entries of a results array
EncodedValues(vals) == [i \in 1..Len(vals) |-> JSONOf(vals[i])]

\* C1: with every injector returning a nil error and a params array of
\* exactly the non-injected parameters, the target is invoked with the values
\* the injectors produced, in declaration order, followed by the decoded
\* elements of params in array order
C1_ArgumentList ==
    \A r \in Reqs :
        LET q == rq[r]
            n == Len(ft.ins) - NonInjected(q)
        IN (/\ built.state = "handler"
            /\ ~firstIsAlsoInjector
            /\ Ended(q)
            /\ InjectorsSucceeded(q)
            /\ ExactParams(q))
           => /\ q.called
              /\ q.calledArgs = ProducedValues(q.injRets) \o
                    [i \in 1..NonInjected(q) |-> ExpectedArg(ft.ins[n + i], q.body.elems[i])]

\* C2: whenever the target returns a nil trailing error, the status is 200
\* and the results array is the encoding of the target's other return
\* values, in order, followed by one null
C2_NilErrorResponse ==
    \A r \in Reqs :
        LET q == rq[r]
        IN (q.called /\ q.ret.err = NilErr)
           => /\ q.pc = "done"
              /\ q.status = 200
              /\ q.results = EncodedValues(q.ret.vals) \o <<JNull>>

C2_Witness ==
    \E r \in Reqs :
        /\ rq[r].called
        /\ rq[r].ret.err = NilErr
        /\ rq[r].pc = "done"
        /\ Len(rq[r].ret.vals) > 0

\* C3: with no ErrHandler configured, when the target returns a non-nil error
\* that has no StatusCode method, the response has status 200, the other return values
\* are encoded as returned, and the last entry of results is an envelope
\* whose error field is the display text of the error
C3_PlainErrorResponse ==
    \A r \in Reqs :
        LET q == rq[r]
        IN (cfg = "nil" /\ q.called /\ q.ret.err # NilErr /\ ~IsStatusCodeError(q.ret.err))
           => /\ q.pc = "done"
              /\ q.status = 200
              /\ Len(q.results) = Len(q.ret.vals) + 1
              /\ SubSeq(q.results, 1, Len(q.ret.vals)) = EncodedValues(q.ret.vals)
              /\ LastResult(q).j = "object"
              /\ LastResult(q).error = q.ret.err.msg

\* C4: whenever the trailing error of the target has a StatusCode method
\* returning C, the response is written with status C
C4_StatusCodeOfError ==
    \A r \in Reqs :
        LET q == rq[r]
        IN (q.called /\ q.ret.err.k \in {"coded", "wrapped"})
           => /\ q.pc = "done"
              /\ q.status = q.ret.err.code

C6_TranslatedError ==
    \A r \in Reqs :
        LET q == rq[r]
            translated == ErrHandler(cfg, IF q.ret.err.k = "wrapped"
                                          THEN innerErr(q.ret.err) ELSE q.ret.err)
        IN (cfg # "nil" /\ q.called /\ q.ret.err # NilErr)
           => /\ q.pc = "done"
              /\ LastResult(q).j = "object"
              /\ LastResult(q).error = ErrorText(translated)
              /\ LastResult(q).error # ErrorText(q.ret.err)
              /\ q.outs[Len(q.outs)].Value = translated
              /\ q.outs[Len(q.outs)].Value # q.ret.err

\* C7: once the j-th injector has returned a non-nil error, the handler has
\* ended: no injector after j is called, the body is not read or decoded, the
\* target is not invoked
C7_InjectorShortCircuit ==
    \A r \in Reqs :
        LET q == rq[r]
        IN \A j \in 1..Len(q.injRets) :
              q.injRets[j].err # NilErr
              => /\ Ended(q)
                 /\ Len(q.injRets) = j
                 /\ ~q.bodyRead
                 /\ q.params = <<>>
                 /\ ~q.called

C7_Witness ==
    \E r \in Reqs :
        /\ Len(argsInjectors) >= 2
        /\ Len(rq[r].injRets) = 1
        /\ rq[r].injRets[1].err # NilErr
        /\ rq[r].body.kind = "array"
        /\ Ended(rq[r])

\* C8: when an injector returns a non-nil error (one json can encode), the
\* response has that error's StatusCode() as status if it has one and 200
\* otherwise, and its results are the zero values of the other return types
\* of the target followed by an error envelope
C8_InjectorErrorResponse ==
    \A r \in Reqs :
        LET q == rq[r]
        IN \A j \in 1..Len(q.injRets) :
              (q.injRets[j].err # NilErr /\ "unencodable" \notin {q.injRets[j].err.k, q.injRets[j].err.ik})
              => /\ q.pc = "done"
                 /\ q.status = IF q.injRets[j].err.k \in {"coded", "wrapped"}
                               THEN q.injRets[j].err.code ELSE 200
                 /\ Len(q.results) = Len(ft.outs)
                 /\ \A i \in 1..(Len(ft.outs) - 1) : q.results[i] = JSONOf(Zero(ft.outs[i]))
                 /\ LastResult(q).j = "object"

\* the text of the arity error: the parameter count of the target as the
\* required count, injected plus decoded as the supplied count
ArityText(q) ==
    <<"require ", ToString(Len(ft.ins)), " params, but passed in ",
      ToString(Len(ft.ins) - NonInjected(q) + Len(q.body.elems)), " params">>

\* a params array shorter than the non-injected parameters reached the
\* decoder of a handler with a target
FewerParams(q) ==
    /\ built.state = "handler"
    /\ ~firstIsAlsoInjector
    /\ InjectorsSucceeded(q)
    /\ q.body.kind = "array"
    /\ Len(q.body.elems) < NonInjected(q)

\* C9 as stated: every response to a params array with fewer elements than
\* the non-injected parameters has status 422 and the arity message, and the
\* target was not invoked
C9_FewerParams ==
    \A r \in Reqs :
        LET q == rq[r]
        IN (FewerParams(q) /\ q.pc = "done")
           => /\ q.status = 422
              /\ LastResult(q).error = ArityText(q)
              /\ ~q.called

\* C9 amended: with no ErrHandler configured, a params array with fewer
\* elements than the non-injected parameters, each element of the JSON type
\* of its parameter, is answered with status 422 and an envelope whose
\* message names the parameter count of the target and the count of injected
\* plus decoded values; the target is not invoked
C9_FewerParamsDecodable ==
    \A r \in Reqs :
        LET q == rq[r]
            n == Len(ft.ins) - NonInjected(q)
        IN (/\ FewerParams(q)
            /\ Ended(q)
            /\ cfg = "nil"
            /\ \A i \in 1..Len(q.body.elems) : ElementFits(ft.ins[n + i], q.body.elems[i]))
           => /\ q.pc = "done"
              /\ q.status = 422
              /\ LastResult(q).j = "object"
              /\ LastResult(q).error = ArityText(q)
              /\ ~q.called

C9_Witness ==
    \E r \in Reqs :
        /\ FewerParams(rq[r])
        /\ cfg = "nil"
        /\ rq[r].pc = "done"
        /\ rq[r].status = 422
        /\ Len(rq[r].injectVals) > 0
        /\ Len(rq[r].body.elems) > 0
        /\ rq[r].bodyRead

\* C10: a params array with more elements than the (one or more)
\* non-injected parameters is answered with a client-error status and an
\* error envelope, without a panic and without invoking the target (stated
\* for the handlers of a Config without ErrHandler)
C10_MoreParams ==
    \A r \in Reqs :
        LET q == rq[r]
        IN (/\ built.state = "handler"
            /\ cfg = "nil"
            /\ ~firstIsAlsoInjector
            /\ InjectorsSucceeded(q)
            /\ q.body.kind = "array"
            /\ NonInjected(q) >= 1
            /\ Len(q.body.elems) > NonInjected(q)
            /\ Ended(q))
           => /\ q.pc = "done"
              /\ q.status \in 400..499
              /\ LastResult(q).j = "object"
              /\ ~q.called

\* the request reached the decoder of a handler with a target that has a
\* non-injected parameter, with a body that is empty, is malformed, or has at
\* the position of a parameter an element of another JSON type
DecodeFails(q) ==
    /\ built.state = "handler"
    /\ ~firstIsAlsoInjector
    /\ InjectorsSucceeded(q)
    /\ NonInjected(q) >= 1
    /\ \/ q.body.kind \in {"empty", "malformed"}
       \/ /\ q.body.kind = "array"
          /\ \E i \in 1..Len(q.body.elems) :
                /\ i <= NonInjected(q)
                /\ ~ElementFits(ft.ins[Len(ft.ins) - NonInjected(q) + i], q.body.elems[i])

\* the results of an internal failure with message text: the zero values of
\* the return types before the error, then the envelope
FailureResults(text) ==
    [i \in 1..Len(ft.outs) |->
        IF i = Len(ft.outs)
        THEN [j |-> "object", v |-> "", error |-> text, value |-> "{}"]
        ELSE JSONOf(Interface(Zero(ft.outs[i])))]

\* C11 as stated: every response to a body that is empty, malformed or has
\* an element of the wrong JSON type has status 422, zero-valued results and
\* an envelope with the fixed message "decode request params error", and the
\* target was not invoked
C11_DecodeError ==
    \A r \in Reqs :
        LET q == rq[r]
        IN (DecodeFails(q) /\ q.pc = "done")
           => /\ q.status = 422
              /\ q.results = FailureResults(<<"decode request params error">>)
              /\ ~q.called

\* C11 amended: with no ErrHandler configured, a body that is empty,
\* malformed or has an element of the wrong JSON type is answered with status
\* 422, zero-valued results and an envelope with the fixed message "decode
\* request params error"; the target is not invoked
C11_DecodeErrorNoErrHandler ==
    \A r \in Reqs :
        LET q == rq[r]
        IN (DecodeFails(q) /\ cfg = "nil" /\ Ended(q))
           => /\ q.pc = "done"
              /\ q.bodyRead
              /\ q.status = 422
              /\ q.results = FailureResults(<<"decode request params error">>)
              /\ ~q.called

C11_Witness ==
    \E r \in Reqs :
        /\ DecodeFails(rq[r])
        /\ cfg = "nil"
        /\ rq[r].pc = "done"
        /\ rq[r].body.kind = "array"
        /\ Len(rq[r].injectVals) > 0
        /\ rq[r].status = 422

\* the injectors of a handler with a target succeeded and supplied every
\* parameter of the target
AllInjected(q) ==
    /\ built.state = "handler"
    /\ ~firstIsAlsoInjector
    /\ InjectorsSucceeded(q)
    /\ NonInjected(q) = 0

\* C12: when the injectors supply every parameter of the target, the body is
\* never read and the request, whatever its body, ends with the target
\* invoked and the response its outcome dictates (stated for the handlers of
\* a Config without ErrHandler)
C12_NoBodyRead ==
    \A r \in Reqs :
        LET q == rq[r]
        IN (AllInjected(q) /\ cfg = "nil" /\ Ended(q))
           => /\ ~q.bodyRead
              /\ q.pc = "done"
              /\ q.called
              /\ q.status = statusOf(q.ret.err)
              /\ q.outs = returnVals(cfg, q.ret).outs

\* r.Context(), the value contextInjector produces
RequestContext == [t |-> "ctx", v |-> "reqctx"]

\* the closure holds the implicit context injector
ImplicitContext == \E i \in 1..Len(argsInjectors) : argsInjectors[i] = contextInjector

\* C13: the implicit context injector is installed exactly when funcs is the
\* target alone and its first parameter is a context; it never fails, the
\* target then gets the request's context as first argument and the decoded
\* params elements as the others; with explicit injectors the closure's
\* injectors are the supplied ones only
C13_ContextInjector ==
    built.state = "handler"
    => /\ ImplicitContext <=> (Len(funcs) = 1 /\ Len(ft.ins) > 0 /\ ft.ins[1] = "ctx")
       /\ Len(funcs) > 1 => argsInjectors = collectedInjectors(funcs)
       /\ \A r \in Reqs :
            LET q == rq[r]
            IN ImplicitContext
               => /\ argsInjectors = <<contextInjector>>
                  /\ \A j \in 1..Len(q.injRets) :
                        q.injRets[j] = Outcome(<<RequestContext>>, NilErr)
                  /\ q.called => q.calledArgs[1] = RequestContext
                  /\ (q.called /\ q.body.kind = "array")
                     => /\ Len(q.body.elems) = Len(ft.ins) - 1
                        /\ \A i \in 1..Len(q.body.elems) :
                              q.calledArgs[i + 1] = ExpectedArg(ft.ins[i + 1], q.body.elems[i])

C13_Witness ==
    \E r \in Reqs :
        /\ built.state = "handler"
        /\ ImplicitContext
        /\ rq[r].pc = "done"
        /\ rq[r].called
        /\ rq[r].body.kind = "array"
        /\ rq[r].body.elems = <<JStr("Gates")>>
        /\ rq[r].calledArgs = <<RequestContext, [t |-> "string", v |-> "Gates"]>>

\* the handler was built from one injector-shaped function and request q
\* came with an empty body
SingleInjector(q) ==
    /\ built.state = "handler"
    /\ Len(funcs) = 1
    /\ firstIsAlsoInjector
    /\ q.pc # "idle"
    /\ q.body.kind = "empty"

\* C14 as stated: every response of a handler built from a single
\* injector-shaped function to a request with an empty body has status 200
\* and, as results, the function's produced values followed by null; the body
\* was not read
C14_SingleInjector ==
    \A r \in Reqs :
        LET q == rq[r]
        IN (SingleInjector(q) /\ q.pc = "done")
           => /\ q.status = 200
              /\ q.results = EncodedValues(ProducedValues(q.injRets)) \o <<JNull>>
              /\ ~q.bodyRead

\* C14 amended: when the single injector-shaped function returns a nil
\* error, the request with an empty body is answered with status 200 and the
\* function's produced values followed by null; the decoder is skipped, the
\* body is not read and nothing else is called
C14_SingleInjectorNilError ==
    \A r \in Reqs :
        LET q == rq[r]
        IN (/\ SingleInjector(q)
            /\ Ended(q)
            /\ \A j \in 1..Len(q.injRets) : q.injRets[j].err = NilErr)
           => /\ q.pc = "done"
              /\ Len(q.injRets) = 1
              /\ q.status = 200
              /\ q.results = EncodedValues(q.injRets[1].vals) \o <<JNull>>
              /\ Len(q.results) = Len(ft.outs)
              /\ ~q.bodyRead
              /\ q.params = <<>>
              /\ ~q.called

C14_Witness ==
    \E r \in Reqs :
        /\ SingleInjector(rq[r])
        /\ rq[r].pc = "done"
        /\ rq[r].injRets = <<Outcome(<<[t |-> "int", v |-> "30"]>>, NilErr)>>
        /\ rq[r].results = <<JNum("30"), JNull>>
        /\ rq[r].status = 200

\* the types the closure's injectors produce fit the leading parameters of
\* the target: no more values than parameters, each assignable to its own
InjectedTypesFit(fs) ==
    LET produced == injectedTypes(closureInjectors(fs))
    IN /\ Len(produced) <= Len(fs[1].ins)
       /\ \A i \in 1..Len(produced) : AssignableTo(produced[i], fs[1].ins[i])

\* C15: a handler of a target with injectors is constructed only if the
\* injectors produce no more values than the target has parameters and the
\* i-th produced type is assignable to the i-th parameter type; otherwise
\* construction panics with the message naming both type lists
C15_InjectorTypes ==
    (Len(funcs) > 0 /\ check(funcs[1]) = <<>> /\ ~isInjector(funcs[1])
        /\ injectorsPanic(funcs, 1) = <<>>)
    => /\ built.state = "handler" => InjectedTypesFit(funcs)
       /\ (built.state = "panic" /\ ~InjectedTypesFit(funcs))
          => built.msg = <<"params type is ">> \o argTypes(ft, closureInjectors(funcs))
                            \o <<", but injecting ">>
                            \o injectedTypes(closureInjectors(funcs))

\* f takes what an injector is called with: (http.ResponseWriter, *http.Request)
InjectorShaped(f) ==
    /\ Len(f.ins) = 2
    /\ AssignableTo("rw", f.ins[1])
    /\ AssignableTo("req", f.ins[2])

\* f is not a function a handler can be built from: not a func, last return
\* value not an error, or a channel among its parameters or return values
BadShape(f) ==
    \/ f.kind # "func"
    \/ Len(f.outs) = 0
    \/ f.outs[Len(f.outs)] # "error"
    \/ \E i \in 1..Len(f.ins) : f.ins[i] = "chan"
    \/ \E i \in 1..Len(f.outs) : f.outs[i] = "chan"

\* funcs is empty, holds a function of bad shape, or holds after the first
\* a function that is not injector-shaped
ShapeViolation(fs) ==
    \/ Len(fs) = 0
    \/ \E i \in 1..Len(fs) : BadShape(fs[i])
    \/ \E i \in 2..Len(fs) : ~InjectorShaped(fs[i])

\* C16: construction from an empty funcs, from a function of bad shape or
\* from a later function that is not injector-shaped panics and returns no
\* handler; no request is ever served and none meets the violation
C16_ShapeViolations ==
    /\ (ShapeViolation(funcs) /\ built.state # "unbuilt")
       => /\ built.state = "panic"
          /\ built.msg # <<>>
          /\ argsInjectors = <<>>
          /\ \A r \in Reqs : rq[r] = IdleReq
    /\ \A r \in Reqs : rq[r].panic # "params can not be chan type."

C16_Witness ==
    /\ built.state = "panic"
    /\ Len(funcs) = 3
    /\ ~BadShape(funcs[1])
    /\ ~BadShape(funcs[2]) /\ InjectorShaped(funcs[2])
    /\ BadShape(funcs[3])

\* C17: no request of a constructed handler fails on the shape or the types
\* of the functions: the channel panic of the closure is never reached and
\* the call of the target never meets an argument that does not fit its
\* parameter
C17_NoShapeFailure ==
    \A r \in Reqs :
        LET q == rq[r]
        IN /\ q.panic # "params can not be chan type."
           /\ q.panic # "reflect: Call using a value of another type"
           /\ q.called => \A i \in 1..Len(q.calledArgs) :
                              AssignableTo(q.calledArgs[i].t, ft.ins[i])

\* C18: a request never panics; one that has ended has written exactly one
\* status code and then exactly one results body, and no request writes a
\* second status or body
C18_OneResponse ==
    \A r \in Reqs :
        LET q == rq[r]
            writes == SelectSeq(q.evs, LAMBDA e : e \in {"WriteHeader", "Write"})
        IN /\ q.pc # "panic"
           /\ q.pc = "done" => writes = <<"WriteHeader", "Write">>
           /\ q.pc # "done" => writes = <<>>

\* C19: a decoded parameter reaches the target as a non-nil pointer exactly
\* when its declared type is a pointer type, and as a value of its declared
\* type otherwise, whatever the number of injected arguments before it; the
\* call never fails on a decoded argument
C19_PointerConvention ==
    \A r \in Reqs :
        LET q == rq[r]
            n == Len(q.injectVals)
        IN /\ (built.state = "handler" /\ ~firstIsAlsoInjector /\ InjectedTypesFit(funcs))
              => q.panic # "reflect: Call using a value of another type"
           /\ q.called
              => \A i \in (n + 1)..Len(ft.ins) :
                    /\ q.calledArgs[i].t = ft.ins[i]
                    /\ Kind(q.calledArgs[i].t) = "ptr" <=> Kind(ft.ins[i]) = "ptr"
                    /\ Kind(ft.ins[i]) = "ptr" => q.calledArgs[i].v # "nil"

C19_Witness ==
    \E r \in Reqs :
        /\ funcs = <<helloPointer, userIdInjector>>
        /\ rq[r].called
        /\ rq[r].body = Body("array", <<JNum("20")>>)
        /\ rq[r].calledArgs = <<[t |-> "string", v |-> "300"], [t |-> "ptrint", v |-> "20"]>>

(***************************************************************************)
(* Concurrent requests: the same closure serves two requests whose steps   *)
(* interleave freely.                                                      *)
(***************************************************************************)
\* the requests served concurrently
ConcReqs == {1, 2}

\* the argument lists of ToHandlerFunc the concurrent requests are served by
ConcFuncLists ==
    {<<helloContext>>, <<cartIdInjector>>,
     <<helloworld, userIdInjector>>, <<helloPointer, userIdInjector>>}

InitConc ==
    /\ funcs \in ConcFuncLists
    /\ cfg \in {"nil", "mapping"}
    /\ built = [state |-> "unbuilt", msg |-> <<>>]
    /\ firstIsAlsoInjector = FALSE
    /\ argsInjectors = <<>>
    /\ rq = [r \in ConcReqs |-> IdleReq]

SpecConc == InitConc /\ [][Next]_vars

RECURSIVE afterInjectors(_, _)
\* the request q after the loop over argsInjectors, the injectors returning
\* rets in turn
afterInjectors(q, rets) ==
    IF rets = <<>> \/ q.pc # "inject" THEN q
    ELSE afterInjectors(injectorTurn(q, Head(rets)), Tail(rets))

\* how a request ends that is served alone, with the given body, what its
\* injectors return and what its target returns
RunAlone(body, injRets, ret) ==
    LET q1 == afterInjectors([IdleReq EXCEPT !.pc = "inject", !.body = body], injRets)
    IN IF q1.pc # "inject" THEN q1
       ELSE IF firstIsAlsoInjector THEN respondInjected(q1)
       ELSE LET q2 == slotsAndDecode(q1)
            IN IF q2.pc # "call" THEN q2 ELSE callAndRespond(q2, ret)

\* C20: under any interleaving of concurrent requests, a request ends as it
\* would if it were served alone with its own body and its own injector and
\* target outcomes; a step of one request changes no other request, and
\* serving never changes funcs, the injectors or the Config of the handler
C20_Isolation ==
    /\ [](\A r \in DOMAIN rq :
            Ended(rq[r]) => rq[r] = RunAlone(rq[r].body, rq[r].injRets, rq[r].ret))
    /\ [][/\ built.state = "handler"
             => UNCHANGED <<funcs, cfg, built, firstIsAlsoInjector, argsInjectors>>
          /\ \A r, s \in DOMAIN rq : (r # s /\ rq'[r] # rq[r]) => rq'[s] = rq[s]]_vars

\* request 1 is between decoding and the call while request 2, with another
\* body and its own injected value, has been answered
C20_Witness ==
    /\ DOMAIN rq = ConcReqs
    /\ rq[1].pc = "call"
    /\ rq[1].injectVals # <<>>
    /\ rq[2].pc = "done"
    /\ rq[2].called
    /\ rq[2].injectVals # <<>>
    /\ rq[2].body # rq[1].body
    /\ rq[2].status = 200

\* the target of request q was called and returned a struct error with an
\* exported field, and the response was written
StructErrorAnswered(q) ==
    /\ q.called
    /\ q.pc = "done"
    /\ q.ret.err.k = "coded"

C22_PlainErrorNoValue ==
    \A r \in Reqs :
        LET q == rq[r]
        IN (cfg = "nil" /\ q.called /\ q.pc = "done" /\ q.ret.err.k = "plain")
           => /\ LastResult(q).j = "object"
              /\ LastResult(q).error = q.ret.err.msg
              /\ LastResult(q).value = "omitted"

\* C23: whatever non-nil error the target returns, also one whose value
\* json cannot encode, the body written is a complete results array whose
\* last entry carries the display text of the error (stated for the handlers
\* of a Config without ErrHandler)
C23_ErrorAlwaysEncoded ==
    \A r \in Reqs :
        LET q == rq[r]
        IN (cfg = "nil" /\ q.called /\ q.ret.err # NilErr)
           => /\ q.pc = "done"
              /\ Len(q.results) = Len(ft.outs)
              /\ LastResult(q).j = "object"
              /\ LastResult(q).error = ErrorText(unwrap(q.ret.err))

\* the entry x of a results array is an error envelope
IsEnvelope(x) == "error" \in DOMAIN x

\* C24: the results array of every body written has as many entries as
\* funcs[0] has return values, none but the last is an error envelope, and
\* when the handler failed before calling the target the entries before the
\* last are the zero values of the return types
C24_ResultsShape ==
    \A r \in Reqs :
        LET q == rq[r]
            n == Len(q.results)
        IN (q.pc = "done" /\ n > 0)
           => /\ n = Len(ft.outs)
              /\ \A i \in 1..(n - 1) : ~IsEnvelope(q.results[i])
              /\ (~q.called /\ IsEnvelope(q.results[n]))
                 => \A i \in 1..(n - 1) :
                       n = Len(ft.outs) => q.results[i] = JSONOf(Interface(Zero(ft.outs[i])))

\* the positions of the params array of q that hold a JSON null and belong
\* to a parameter of the target
NullPositions(q) ==
    IF q.body.kind # "array" THEN {}
    ELSE {i \in 1..Len(q.body.elems) :
             /\ q.body.elems[i] = JNull
             /\ i <= Len(ft.ins) - Len(q.injectVals)}

\* C25: a JSON null in params is no decode error, and the argument made of it
\* is a non-nil pointer to the zero value for a pointer parameter and the
\* zero value for any other parameter, both as handed to v.Call and as the
\* target receives it
C25_NullParam ==
    \A r \in Reqs :
        LET q == rq[r]
            n == Len(q.injectVals)
            slots == Len(ft.ins) - n
        IN \A i \in NullPositions(q) :
              /\ (/\ q.bodyRead
                  /\ \A k \in 1..Len(q.body.elems) :
                        (k <= slots /\ q.body.elems[k] # JNull)
                           => fits(slotType(ft.ins[n + k]), q.body.elems[k]))
                 => q.params # <<>>
              /\ q.pc = "call"
                 => /\ inVal(ft, n, newParams(ft, n), q.params, i)
                          = ExpectedArg(ft.ins[n + i], JNull)
                    /\ AssignableTo(inVal(ft, n, newParams(ft, n), q.params, i).t,
                                    ft.ins[n + i])
              /\ q.called
                 => /\ q.calledArgs[n + i] = ExpectedArg(ft.ins[n + i], JNull)
                    /\ isPtrParam(ft.ins[n + i]) => q.calledArgs[n + i].v # "nil"

C25_Witness ==
    \E r \in Reqs :
        /\ funcs = <<helloPointer>>
        /\ rq[r].body = Body("array", <<JNull, JNull>>)
        /\ rq[r].called
        /\ rq[r].calledArgs = <<[t |-> "string", v |-> ""], [t |-> "ptrint", v |-> "0"]>>
        /\ rq[r].pc = "done"

\* the status the error e asks for: its StatusCode() if it has one, 200
\* otherwise
OwnStatus(e) == IF e.k \in {"coded", "wrapped"} THEN e.code ELSE 200

\* C26: whatever the ErrHandler returns, a request whose target or injector
\* returned the error e is answered with the status e asks for, and a request
\* that fails in decoding or in the arity check is answered with 422
C26_StatusBeforeTranslation ==
    \A r \in Reqs :
        LET q == rq[r]
        IN /\ (q.called /\ q.ret.err # NilErr)
              => (q.pc = "done" /\ q.status = OwnStatus(q.ret.err))
           /\ \A j \in 1..Len(q.injRets) :
                 q.injRets[j].err # NilErr
                 => (q.pc = "done" /\ q.status = OwnStatus(q.injRets[j].err))
           /\ ((DecodeFails(q) \/ FewerParams(q)) /\ Ended(q))
              => (q.pc = "done" /\ q.status = 422)

\* C27: with an ErrHandler configured, the message of every error envelope is
\* the text of the error the ErrHandler returns for the originating error
\* (the inner error of a NewStatusCodeError wrapper), the hook applied once
C27_ErrHandlerOnce ==
    \A r \in Reqs :
        LET q == rq[r]
            once(e) == ErrorText(ErrHandler(cfg, IF e.k = "wrapped" THEN innerErr(e) ELSE e))
        IN (cfg # "nil" /\ q.pc = "done" /\ LastResult(q).j = "object")
           => /\ q.called => LastResult(q).error = once(q.ret.err)
              /\ \A j \in 1..Len(q.injRets) :
                    q.injRets[j].err # NilErr => LastResult(q).error = once(q.injRets[j].err)
              /\ (~q.called /\ InjectorsSucceeded(q))
                 => \/ LastResult(q).error = once(PlainErr(<<"decode request params error">>))
                    \/ LastResult(q).error = once(PlainErr(ArityText(q)))

\* C28: in the calls every request makes on its ResponseWriter, the
\* Content-Type header is set before WriteHeader commits the status
C28_ContentTypeFirst ==
    \A r \in Reqs :
        LET evs == rq[r].evs
        IN \A i \in 1..Len(evs) :
              evs[i] = "WriteHeader"
              => \E k \in 1..(i - 1) : evs[k] = "SetContentType"

\* C29: the target of a handler with at least one non-injected parameter is
\* invoked only for a body that holds a params array of exactly that many
\* elements
C29_InvokedOnlyWithParams ==
    \A r \in Reqs :
        LET q == rq[r]
            slots == Len(ft.ins) - Len(q.injectVals)
        IN (q.called /\ slots >= 1)
           => /\ q.body.kind = "array"
              /\ Len(q.body.elems) = slots

\* C30: when the ErrHandler returns nil for the non-nil error of a request,
\* the handler still ends with a response written, never in a panic
C30_NilFromErrHandler ==
    \A r \in Reqs :
        LET q == rq[r]
        IN (cfg = "mapping" /\ Ended(q))
           => /\ q.panic # "nil pointer dereference"
              /\ (DecodeFails(q) \/ FewerParams(q)) => (q.pc = "done" /\ q.status # 0)

====
